---- MODULE Spec2Model ----
(***************************************************************************)
(* Lifecycle and per-frame arithmetic of the ElectronMirror renderer:      *)
(* App (App.tsx), CameraComponent and AudioVisualizer.                     *)
(*                                                                         *)
(* The renderer is single threaded: every action below is one task of the  *)
(* event loop (an effect flush, a promise continuation, a DOM event, an    *)
(* animation-frame callback).  JS numbers are modelled as exact rationals  *)
(* [n |-> numerator, d |-> denominator] kept in lowest terms.              *)
(***************************************************************************)
EXTENDS Integers, Sequences, FiniteSets, TLC

\* ---------------------------------------------------------------- bounds
\* frequencyBinCount of the analyser (fftSize / 2 = 1024 in the code),
\* reduced so that the frequency data can be enumerated.
bufferLength == 2
\* Number of animation-frame ids the platform hands out before the model
\* stops delivering frames.
MaxFrames == 3

\* Sample byte values of the Uint8Array filled by getByteFrequencyData:
\* above NOISE_THRESHOLD but not above NOISE_THRESHOLD + 5, just above
\* NOISE_THRESHOLD + 5, and the maximum.
Bytes == {12, 16, 255}

\* ------------------------------------------------------------- constants
NOISE_THRESHOLD == 10
MAX_AMPLITUDE == 300
IDLE_AMPLITUDE == 10

\* null of a ref / state holding a stream, source, context or frame id
NULL == 0
\* null of the AudioVisualizer error state
NoError == "null"

CameraErrorText == "cannot access camera, check permission settings"
MicNotAllowedText == "allow microphone access to enable visualisation"
MicNotFoundText == "no microphone device detected"
AudioInitFailedText == "audio initialisation failed, check device settings"

\* Error names getUserMedia can reject with (a sample of the DOMException
\* names of the Media Capture specification).
GumErrorNames == {"NotAllowedError", "NotFoundError", "NotReadableError"}
\* Outcomes of the steps of initAudio that follow getUserMedia.
InitOutcomes == {"ok", "contextThrows", "sourceThrows"}

VARIABLES
    appPhase,        \* "init" | "mounted" | "unmounted"
    errorMessage,    \* App: useState('')
    renderPending,   \* App: a re-render scheduled by setErrorMessage
    onErrorId,       \* identity of the inline onError closure of the last render
    camDeps,         \* CameraComponent: onError the effect last ran with
    audioDeps,       \* AudioVisualizer: render its effect last ran in
    camRequests,     \* camera getUserMedia promises, in call order
    camStopped,      \* camera streams whose tracks were stopped
    videoStreamRef,  \* CameraComponent: videoStreamRef.current
    srcObject,       \* CameraComponent: videoRef.current.srcObject
    isCameraActive,  \* CameraComponent: useState(false)
    micRequests,     \* microphone getUserMedia promises, in call order
    micStopped,      \* microphone streams whose tracks were stopped
    mediaStreamRef,  \* AudioVisualizer: mediaStreamRef.current
    sourceRef,       \* AudioVisualizer: sourceRef.current
    connected,       \* sources connected to an analyser
    audioContext,    \* AudioVisualizer: useState audioContext
    isListening,     \* AudioVisualizer: useState(false)
    error,           \* AudioVisualizer: useState error
    micErrName,      \* name of the error caught by initAudio
    rafPending,      \* ids of the animation-frame callbacks not yet run
    nextRafId,       \* next id requestAnimationFrame returns
    animationRef,    \* AudioVisualizer: animationRef.current
    dataArray,       \* startDrawing: dataArray
    animationState   \* AudioVisualizer: animationStateRef.current

appVars == <<appPhase, errorMessage, renderPending, onErrorId>>
camVars == <<camDeps, camRequests, camStopped, videoStreamRef, srcObject,
             isCameraActive>>
audioVars == <<audioDeps, micRequests, micStopped, mediaStreamRef, sourceRef,
               connected, audioContext, isListening, error, micErrName>>
drawVars == <<rafPending, nextRafId, animationRef, dataArray, animationState>>
vars == <<appVars, camVars, audioVars, drawVars>>

\* ------------------------------------------------------ number arithmetic
Abs(x) == IF x < 0 THEN -x ELSE x

RECURSIVE GCD(_, _)
GCD(a, b) == IF b = 0 THEN a ELSE GCD(b, a % b)

Rat(n, d) ==
    LET g == GCD(Abs(n), d)
    IN  [n |-> n \div g, d |-> d \div g]

LCM(a, b) == (a \div GCD(a, b)) * b

RAdd(x, y) ==
    LET l == LCM(x.d, y.d)
    IN  Rat(x.n * (l \div x.d) + y.n * (l \div y.d), l)

RSub(x, y) == RAdd(x, [n |-> -y.n, d |-> y.d])

RMul(x, y) ==
    LET g1 == GCD(Abs(x.n), y.d)
        g2 == GCD(Abs(y.n), x.d)
    IN  Rat((x.n \div g1) * (y.n \div g2), (x.d \div g2) * (y.d \div g1))

RLt(x, y) ==
    LET l == LCM(x.d, y.d)
    IN  x.n * (l \div x.d) < y.n * (l \div y.d)

RLe(x, y) ==
    LET l == LCM(x.d, y.d)
    IN  x.n * (l \div x.d) <= y.n * (l \div y.d)

RMin(x, y) == IF RLt(y, x) THEN y ELSE x

RECURSIVE SumTo(_, _)
SumTo(data, i) == IF i = 0 THEN 0 ELSE SumTo(data, i - 1) + data[i]

\* sum / bufferLength
Average(data) == Rat(SumTo(data, bufferLength), bufferLength)


\* ------------------------------------------------ drawWaveforms, per frame
\* state.active = average > NOISE_THRESHOLD + 5
IsActive(average) == RLt(Rat(NOISE_THRESHOLD + 5, 1), average)

\* state.active ? Math.min(MAX_AMPLITUDE, average * 0.5) : IDLE_AMPLITUDE
TargetAmplitude(active, average) ==
    IF active THEN RMin(Rat(MAX_AMPLITUDE, 1), RMul(average, Rat(1, 2)))
    ELSE Rat(IDLE_AMPLITUDE, 1)

Smooth_overshoot(base, target) ==
    RAdd(base, RMul(RSub(target, base), Rat(11, 10)))

\* state.baseAmplitude += (state.targetAmplitude - state.baseAmplitude) * 0.1
Smooth(base, target) == RAdd(base, RMul(RSub(target, base), Rat(1, 10)))

\* animationStateRef.current after construction
InitialAnimationState ==
    [phase |-> Rat(0, 1),
     baseAmplitude |-> Rat(IDLE_AMPLITUDE, 1),
     rotationAngle |-> 0,
     rotationSpeed |-> 20,
     breathPhase |-> 0,
     breathSpeed |-> 20,
     active |-> FALSE,
     targetAmplitude |-> Rat(IDLE_AMPLITUDE, 1)]

\* The state update of one execution of drawWaveforms on frequency data.
DrawState(st, data) ==
    LET average == Average(data)
        active == IsActive(average)
        target == TargetAmplitude(active, average)
    IN  [st EXCEPT !.phase = RAdd(st.phase, Rat(1, 100)),
                   !.breathPhase = st.breathPhase + st.breathSpeed,
                   !.rotationAngle = st.rotationAngle + st.rotationSpeed,
                   !.active = active,
                   !.targetAmplitude = target,
                   !.baseAmplitude = Smooth(st.baseAmplitude, target)]

RescheduleFrame_none(pending, id) == pending

\* requestAnimationFrame(drawWaveforms): the callback joins the pending list
RescheduleFrame(pending, id) == pending \cup {id}

\* One execution of drawWaveforms; pending is the callback list without the
\* callback being run.
DrawWaveforms(pending, data) ==
    /\ animationRef' = nextRafId
    /\ rafPending' = RescheduleFrame(pending, nextRafId)
    /\ nextRafId' = nextRafId + 1
    /\ dataArray' = data
    /\ animationState' = DrawState(animationState, data)

\* canvasRef.current: the canvas is rendered while the component is mounted
\* and shows no error.
CanvasRef == IF appPhase = "mounted" /\ error = NoError THEN 1 ELSE NULL

\* -------------------------------------------------------------- cleanups
CancelAnimationFrame_skip(pending, ref) == pending

\* if (animationRef.current) cancelAnimationFrame(animationRef.current)
CancelAnimationFrame(pending, ref) ==
    IF ref # NULL THEN pending \ {ref} ELSE pending

\* if (ref.current) ref.current.getTracks().forEach(track => track.stop())
StopTracks(stopped, ref) == IF ref # NULL THEN stopped \cup {ref} ELSE stopped

\* if (sourceRef.current) sourceRef.current.disconnect()
Disconnect(conn, ref) == IF ref # NULL THEN conn \ {ref} ELSE conn

\* ------------------------------------------------------------ error texts
AudioErrorText_swapped(name) ==
    IF name = "NotAllowedError" THEN MicNotFoundText
    ELSE IF name = "NotFoundError" THEN MicNotAllowedText
    ELSE AudioInitFailedText

\* the catch block of initAudio
AudioErrorText(name) ==
    IF name = "NotAllowedError" THEN MicNotAllowedText
    ELSE IF name = "NotFoundError" THEN MicNotFoundText
    ELSE AudioInitFailedText

\* --------------------------------------------------- effect dependencies
\* CameraComponent: useEffect(..., [onError])
CameraEffectDepsChanged(old, new) == old # new

AudioEffectDepsChanged_onError(old, new) == old # new

\* AudioVisualizer: useEffect(..., [])
AudioEffectDepsChanged(old, new) == FALSE


\* ------------------------------------------------------------------ Init
DataArrays == [1..bufferLength -> Bytes]

Init ==
    /\ appPhase = "init"
    /\ errorMessage = ""
    /\ renderPending = FALSE
    /\ onErrorId = 1
    /\ camDeps = NULL
    /\ audioDeps = NULL
    /\ camRequests = <<>>
    /\ camStopped = {}
    /\ videoStreamRef = NULL
    /\ srcObject = NULL
    /\ isCameraActive = FALSE
    /\ micRequests = <<>>
    /\ micStopped = {}
    /\ mediaStreamRef = NULL
    /\ sourceRef = NULL
    /\ connected = {}
    /\ audioContext = NULL
    /\ isListening = FALSE
    /\ error = NoError
    /\ micErrName = NoError
    /\ rafPending = {}
    /\ nextRafId = 1
    /\ animationRef = NULL
    /\ dataArray = [i \in 1..bufferLength |-> 0]
    /\ animationState = InitialAnimationState

\* --------------------------------------------------------------- actions
\* First commit of App: the effects of CameraComponent and AudioVisualizer
\* run; setupCamera() and initAudio() each call getUserMedia and suspend.
Mount ==
    /\ appPhase = "init"
    /\ appPhase' = "mounted"
    /\ camDeps' = onErrorId
    /\ camRequests' = Append(camRequests, "pending")
    /\ audioDeps' = onErrorId
    /\ micRequests' = Append(micRequests, "pending")
    /\ UNCHANGED <<errorMessage, renderPending, onErrorId, camStopped,
                   videoStreamRef, srcObject, isCameraActive, micStopped,
                   mediaStreamRef, sourceRef, connected, audioContext,
                   isListening, error, micErrName, drawVars>>

\* setupCamera resumes after getUserMedia fulfilled request r with stream r.
CameraResolve(r) ==
    /\ r \in DOMAIN camRequests
    /\ camRequests[r] = "pending"
    /\ camRequests' = [camRequests EXCEPT ![r] = "fulfilled"]
    /\ videoStreamRef' = r
    /\ srcObject' = IF appPhase = "mounted" THEN r ELSE srcObject
    /\ UNCHANGED <<appVars, camDeps, camStopped, isCameraActive, audioVars,
                   drawVars>>

\* setupCamera's catch: onError(...) is App's setErrorMessage; a changed
\* value schedules a re-render of App, an equal value bails out.
CameraReject(r) ==
    /\ r \in DOMAIN camRequests
    /\ camRequests[r] = "pending"
    /\ camRequests' = [camRequests EXCEPT ![r] = "rejected"]
    /\ IF appPhase = "mounted" /\ errorMessage # CameraErrorText
       THEN /\ errorMessage' = CameraErrorText
            /\ renderPending' = TRUE
       ELSE UNCHANGED <<errorMessage, renderPending>>
    /\ UNCHANGED <<appPhase, onErrorId, camDeps, camStopped, videoStreamRef,
                   srcObject, isCameraActive, audioVars, drawVars>>

\* videoRef.current.onloadedmetadata
VideoLoadedMetadata ==
    /\ appPhase = "mounted"
    /\ srcObject # NULL
    /\ ~isCameraActive
    /\ isCameraActive' = TRUE
    /\ UNCHANGED <<appVars, camDeps, camRequests, camStopped, videoStreamRef,
                   srcObject, audioVars, drawVars>>

\* App re-renders: both children get a fresh inline onError; an effect whose
\* dependencies changed runs its cleanup and then its body again.
AppRender ==
    /\ appPhase = "mounted"
    /\ renderPending
    /\ renderPending' = FALSE
    /\ onErrorId' = onErrorId + 1
    /\ IF CameraEffectDepsChanged(camDeps, onErrorId')
       THEN /\ camStopped' = StopTracks(camStopped, videoStreamRef)
            /\ camRequests' = Append(camRequests, "pending")
            /\ camDeps' = onErrorId'
       ELSE UNCHANGED <<camStopped, camRequests, camDeps>>
    /\ IF AudioEffectDepsChanged(audioDeps, onErrorId')
       THEN /\ rafPending' = CancelAnimationFrame(rafPending, animationRef)
            /\ connected' = Disconnect(connected, sourceRef)
            /\ micStopped' = StopTracks(micStopped, mediaStreamRef)
            /\ micRequests' = Append(micRequests, "pending")
            /\ audioDeps' = onErrorId'
       ELSE UNCHANGED <<rafPending, connected, micStopped, micRequests,
                        audioDeps>>
    /\ UNCHANGED <<appPhase, errorMessage, videoStreamRef, srcObject,
                   isCameraActive, mediaStreamRef, sourceRef, audioContext,
                   isListening, error, micErrName, nextRafId, animationRef,
                   dataArray, animationState>>

\* initAudio's catch block; state setters of an unmounted component are
\* dropped.
InitAudioCatch(name) ==
    /\ micErrName' = name
    /\ error' = IF appPhase = "mounted" THEN AudioErrorText(name) ELSE error

\* initAudio's getUserMedia rejects with an error of the given name.
InitAudioReject(r, name) ==
    /\ r \in DOMAIN micRequests
    /\ micRequests[r] = "pending"
    /\ micRequests' = [micRequests EXCEPT ![r] = "rejected"]
    /\ InitAudioCatch(name)
    /\ UNCHANGED <<appVars, camVars, audioDeps, micStopped, mediaStreamRef,
                   sourceRef, connected, audioContext, isListening, drawVars>>

\* initAudio resumes after getUserMedia fulfilled request r with stream r:
\* it builds the audio graph and calls startDrawing, whose first
\* drawWaveforms() runs synchronously.
InitAudioResolve(r, outcome, data) ==
    /\ r \in DOMAIN micRequests
    /\ micRequests[r] = "pending"
    /\ micRequests' = [micRequests EXCEPT ![r] = "fulfilled"]
    /\ mediaStreamRef' = r
    /\ IF outcome = "ok"
       THEN /\ sourceRef' = r
            /\ connected' = connected \cup {r}
            /\ audioContext' = IF appPhase = "mounted" THEN r ELSE audioContext
            /\ isListening' = IF appPhase = "mounted" THEN TRUE ELSE isListening
            /\ IF CanvasRef # NULL
               THEN DrawWaveforms(rafPending, data)
               ELSE UNCHANGED drawVars
            /\ UNCHANGED <<error, micErrName>>
       ELSE /\ InitAudioCatch(IF outcome = "contextThrows"
                              THEN "NotSupportedError"
                              ELSE "InvalidStateError")
            /\ UNCHANGED <<sourceRef, connected, audioContext, isListening,
                           drawVars>>
    /\ UNCHANGED <<appVars, camVars, audioDeps, micStopped>>

\* The platform runs the pending animation-frame callback id: drawWaveforms.
AnimationFrame(id, data) ==
    /\ id \in rafPending
    /\ nextRafId <= MaxFrames
    /\ DrawWaveforms(rafPending \ {id}, data)
    /\ UNCHANGED <<appVars, camVars, audioVars>>

\* App unmounts: the cleanup of CameraComponent's effect and cleanupAudio
\* run.  cleanupAudio is the closure of the first render, whose audioContext
\* state is null, so no context is closed.
Unmount ==
    /\ appPhase = "mounted"
    /\ appPhase' = "unmounted"
    /\ renderPending' = FALSE
    /\ camStopped' = StopTracks(camStopped, videoStreamRef)
    /\ rafPending' = CancelAnimationFrame(rafPending, animationRef)
    /\ connected' = Disconnect(connected, sourceRef)
    /\ micStopped' = StopTracks(micStopped, mediaStreamRef)
    /\ UNCHANGED <<errorMessage, onErrorId, camDeps, camRequests,
                   videoStreamRef, srcObject, isCameraActive, audioDeps,
                   micRequests, mediaStreamRef, sourceRef, audioContext,
                   isListening, error, micErrName, nextRafId, animationRef,
                   dataArray, animationState>>

Next ==
    \/ Mount
    \/ \E r \in 1..Len(camRequests) : CameraResolve(r)
    \/ \E r \in 1..Len(camRequests) : CameraReject(r)
    \/ VideoLoadedMetadata
    \/ AppRender
    \/ \E r \in 1..Len(micRequests), name \in GumErrorNames :
          InitAudioReject(r, name)
    \/ \E r \in 1..Len(micRequests), outcome \in InitOutcomes,
          data \in DataArrays : InitAudioResolve(r, outcome, data)
    \/ \E id \in rafPending, data \in DataArrays : AnimationFrame(id, data)
    \/ Unmount

Spec == Init /\ [][Next]_vars


\* ------------------------------------------------------------ properties
Fulfilled(requests) == {r \in DOMAIN requests : requests[r] = "fulfilled"}
Pending(requests) == {r \in DOMAIN requests : requests[r] = "pending"}
BaseAmplitude == animationState.baseAmplitude

\* C1: once the components are unmounted and every getUserMedia request has
\* settled, every track of every stream the camera and the microphone
\* component acquired has been stopped.
C1_StreamsReleasedOnUnmount ==
    (/\ appPhase = "unmounted"
     /\ Pending(camRequests) = {}
     /\ Pending(micRequests) = {})
    => /\ Fulfilled(camRequests) \subseteq camStopped
       /\ Fulfilled(micRequests) \subseteq micStopped

\* C2: no retry: each component calls getUserMedia at most once.
C2_AtMostOneAcquisitionAttempt ==
    /\ Len(camRequests) <= 1
    /\ Len(micRequests) <= 1

\* C3: from a successful initAudio until unmount exactly one drawWaveforms
\* callback is pending and animationRef.current holds its id; every
\* execution of drawWaveforms requested exactly one further frame.
C3_ExactlyOneFramePending ==
    (appPhase = "mounted" /\ isListening)
    => /\ Cardinality(rafPending) = 1
       /\ animationRef \in rafPending
       /\ animationRef = nextRafId - 1

C3_Witness ==
    /\ appPhase = "mounted"
    /\ isListening
    /\ nextRafId > 2
    /\ rafPending = {animationRef}

\* C4: a camera failure and the App re-render it causes leave the
\* AudioVisualizer (stream, isListening, error, draw loop, getUserMedia
\* requests) unchanged; a microphone initialisation failure leaves App's
\* errorMessage and the camera component unchanged.
C4_WidgetsIndependent ==
    [][/\ ((\/ \E r \in DOMAIN camRequests :
                 camRequests[r] = "pending" /\ camRequests'[r] = "rejected"
            \/ onErrorId' # onErrorId)
           => UNCHANGED <<audioVars, drawVars>>)
       /\ (micErrName' # micErrName
           => UNCHANGED <<errorMessage, renderPending, onErrorId, camVars>>)
      ]_vars

C4_Witness ==
    /\ onErrorId > 1
    /\ errorMessage = CameraErrorText
    /\ isListening
    /\ Cardinality(rafPending) = 1
    /\ nextRafId > 2

\* C5 as stated: the only error text ever shown is a permission-denied or a
\* device-not-found message.
C5_OnlyPermissionOrNotFound ==
    /\ errorMessage \in {"", CameraErrorText}
    /\ error \in {NoError, MicNotAllowedText, MicNotFoundText}

\* C5 amended: the texts shown are the camera access message, the microphone
\* permission message (NotAllowedError only), the microphone not-found
\* message (NotFoundError only) and, for every other failure of initAudio,
\* the generic initialisation-failed message.
C5_ErrorTexts ==
    /\ errorMessage \in {"", CameraErrorText}
    /\ error \in {NoError, MicNotAllowedText, MicNotFoundText,
                  AudioInitFailedText}
    /\ error = MicNotAllowedText => micErrName = "NotAllowedError"
    /\ error = MicNotFoundText => micErrName = "NotFoundError"
    /\ error = AudioInitFailedText
       => micErrName \notin {NoError, "NotAllowedError", "NotFoundError"}

C5_Witness ==
    /\ error = AudioInitFailedText
    /\ mediaStreamRef # NULL
    /\ errorMessage = CameraErrorText

\* C6: once the AudioVisualizer is unmounted no animation frame is pending
\* and drawWaveforms never executes again, also when initAudio resumes after
\* the cleanup.
C6_NoFrameAfterUnmount ==
    [][appPhase' = "unmounted"
       => /\ rafPending' = {}
          /\ appPhase = "unmounted"
             => UNCHANGED <<nextRafId, animationRef, dataArray,
                            animationState>>
      ]_vars

C6_Witness ==
    /\ appPhase = "unmounted"
    /\ micRequests = <<"fulfilled">>
    /\ sourceRef # NULL
    /\ mediaStreamRef \notin micStopped

\* C7: after every frame state.active is true exactly when the average of
\* the frequency bytes exceeds NOISE_THRESHOLD; targetAmplitude is
\* IDLE_AMPLITUDE when inactive and min(MAX_AMPLITUDE, average * 0.5) when
\* active.
C7_ActiveIffAboveNoiseThreshold ==
    LET average == Average(dataArray)
    IN  /\ animationState.active <=> RLt(Rat(NOISE_THRESHOLD, 1), average)
        /\ ~animationState.active
           => animationState.targetAmplitude = Rat(IDLE_AMPLITUDE, 1)
        /\ animationState.active
           => animationState.targetAmplitude =
                 RMin(Rat(MAX_AMPLITUDE, 1), RMul(average, Rat(1, 2)))

\* C8 as stated: baseAmplitude stays between IDLE_AMPLITUDE and
\* MAX_AMPLITUDE.
C8_AmplitudeBetweenIdleAndMax ==
    /\ RLe(Rat(IDLE_AMPLITUDE, 1), BaseAmplitude)
    /\ RLe(BaseAmplitude, Rat(MAX_AMPLITUDE, 1))

\* C8 amended: in each frame baseAmplitude moves toward that frame's
\* targetAmplitude by one tenth of the gap without overshooting, and it
\* stays above (NOISE_THRESHOLD + 5) / 2 and at most MAX_AMPLITUDE.
C8_AmplitudeSmoothAndBounded ==
    [][animationState' # animationState
       => LET base == animationState.baseAmplitude
              next == animationState'.baseAmplitude
              target == animationState'.targetAmplitude
          IN  /\ RMul(RSub(next, base), Rat(10, 1)) = RSub(target, base)
              /\ \/ RLe(base, next) /\ RLe(next, target)
                 \/ RLe(target, next) /\ RLe(next, base)
              /\ RLt(Rat(NOISE_THRESHOLD + 5, 2), next)
              /\ RLe(next, Rat(MAX_AMPLITUDE, 1))
      ]_vars

C8_Witness ==
    /\ RLt(BaseAmplitude, Rat(IDLE_AMPLITUDE, 1))
    /\ animationState.active

====
